---- MODULE Spec2Model ----
(***************************************************************************)
(* Model of the action-execution core of inspect_evals/ml_agent_bench:     *)
(* the Environment dispatcher (environment.py), the low-level actions and  *)
(* their guard decorators (low_level_actions.py), the Step/Trace records   *)
(* (schema.py) and the read-only set built by prepare_task.py.             *)
(*                                                                         *)
(* Strings are sequences of chunks: a path is a sequence of one-character  *)
(* strings, a message is a sequence whose chunks are the literal pieces of *)
(* the f-string and the characters of the interpolated values, and string  *)
(* concatenation is \o.  File contents are sequences of tokens.            *)
(***************************************************************************)
EXTENDS Integers, Sequences, FiniteSets, TLC

\* ------------------------------------------------------------------ bounds

\* args.max_steps scaled down (args.py:10 sets 50)
max_steps == 2
\* args.max_time scaled down, in clock ticks (args.py:11 sets 5 * 60 * 60)
max_time == 1
\* the clock stops advancing here
MaxClock == 2
\* number of execute() calls explored per run
MaxCalls == 2
\* longest file content, in tokens
MaxContentLen == 2
\* backups pushed per run
MaxBackups == 2
\* appends a caller makes to a Trace object it was returned
MaxMutations == 2
\* execute() calls in a run of edits and undos
MaxUndoCalls == 5

\* ------------------------------------------------------------------ strings

\* str.startswith
startswith(s, prefix) ==
    /\ Len(prefix) <= Len(s)
    /\ SubSeq(s, 1, Len(prefix)) = prefix

\* str.split("/"): the pieces between the slashes, empty pieces included
RECURSIVE split(_)
split(s) ==
    IF \A i \in 1..Len(s) : s[i] # "/"
    THEN <<s>>
    ELSE LET i == CHOOSE k \in 1..Len(s) :
                      s[k] = "/" /\ \A j \in 1..(k - 1) : s[j] # "/"
         IN <<SubSeq(s, 1, i - 1)>> \o split(SubSeq(s, i + 1, Len(s)))

\* "/".join(comps)
RECURSIVE slashjoin(_)
slashjoin(comps) ==
    IF comps = <<>> THEN <<>>
    ELSE IF Len(comps) = 1 THEN comps[1]
    ELSE comps[1] \o <<"/">> \o slashjoin(Tail(comps))

\* os.path.join(a, b) for two components
join(a, b) ==
    IF startswith(b, <<"/">>) THEN b
    ELSE IF a = <<>> \/ a[Len(a)] = "/" THEN a \o b
    ELSE a \o <<"/">> \o b

\* the loop of posixpath.normpath over the split components
RECURSIVE normcomps(_, _, _)
normcomps(comps, new_comps, initial_slashes) ==
    IF comps = <<>> THEN new_comps
    ELSE LET comp == Head(comps)
             n == Len(new_comps)
         IN IF comp = <<>> \/ comp = <<".">>
            THEN normcomps(Tail(comps), new_comps, initial_slashes)
            ELSE IF \/ comp # <<".", ".">>
                    \/ (~initial_slashes /\ n = 0)
                    \/ (n > 0 /\ new_comps[n] = <<".", ".">>)
            THEN normcomps(Tail(comps), Append(new_comps, comp), initial_slashes)
            ELSE IF n > 0
            THEN normcomps(Tail(comps), SubSeq(new_comps, 1, n - 1), initial_slashes)
            ELSE normcomps(Tail(comps), new_comps, initial_slashes)

\* posixpath.normpath (paths with one leading slash at most)
normpath(path) ==
    LET initial_slashes == startswith(path, <<"/">>)
        rooted(body) == IF initial_slashes THEN <<"/">> \o body ELSE body
        or_dot(out) == IF out = <<>> THEN <<".">> ELSE out
    IN IF path = <<>> THEN <<".">>
       ELSE or_dot(rooted(slashjoin(normcomps(split(path), <<>>, initial_slashes))))

\* os.getcwd(): the process runs in the work root, which the handlers
\* name "." (the work_dir default)
getcwd == <<"/", "w">>

\* os.path.abspath
abspath_of(path) ==
    normpath(IF startswith(path, <<"/">>) THEN path ELSE join(getcwd, path))

\* str < str: lexicographic order of list.sort() over the characters in use
ord(c) ==
    CASE c = "." -> 46 [] c = "/" -> 47 [] c = "1" -> 49 [] c = "2" -> 50
      [] c = "3" -> 51 [] c = "4" -> 52 [] c = "_" -> 95 [] c = "a" -> 97
      [] c = "b" -> 98 [] c = "c" -> 99 [] c = "e" -> 101 [] c = "k" -> 107
      [] c = "m" -> 109 [] c = "p" -> 112 [] c = "s" -> 115 [] c = "u" -> 117
      [] c = "w" -> 119 [] OTHER -> 0

RECURSIVE strless(_, _)
strless(s, t) ==
    IF t = <<>> THEN FALSE
    ELSE IF s = <<>> THEN TRUE
    ELSE IF ord(Head(s)) # ord(Head(t)) THEN ord(Head(s)) < ord(Head(t))
    ELSE strless(Tail(s), Tail(t))

\* os.path.dirname / os.path.basename of a path that holds a slash or not
lastslash(s) ==
    IF \E i \in 1..Len(s) : s[i] = "/"
    THEN CHOOSE i \in 1..Len(s) : s[i] = "/" /\ \A j \in (i + 1)..Len(s) : s[j] # "/"
    ELSE 0

dirname(s) ==
    LET i == lastslash(s)
    IN IF i = 0 THEN <<>> ELSE IF i = 1 THEN <<"/">> ELSE SubSeq(s, 1, i - 1)

basename(s) == SubSeq(s, lastslash(s) + 1, Len(s))

\* ------------------------------------------------------------------ the world

\* the paths an agent names in its actions
P_dot_a == <<".", "/", "a">>                         \* "./a"
P_a == <<"a">>                                       \* "a"
P_b == <<"b">>                                       \* "b"
P_m == <<"m">>                                       \* "m": no such file at start
P_b_a == <<"b", "_", "a">>                           \* "b_a": no such file at start
P_sib == <<".", ".", "/", "w", "2", "/", "s">>       \* "../w2/s"
P_out == <<".", ".", "/", "e", "/", "s">>            \* "../e/s"
P_s == <<"s">>                                       \* "s", used with work_dir "/e"
P_dot == <<".">>                                     \* "."
P_sibdir == <<".", ".", "/", "w", "2">>              \* "../w2"
P_outdir == <<".", ".", "/", "e">>                   \* "../e"
WD_e == <<"/", "e">>                                 \* "/e"

Paths == {P_dot_a, P_a, P_b, P_m, P_sib, P_out}
DirPaths == {P_dot, P_sibdir, P_outdir, P_m}

\* the files of the machine, by canonical absolute path
F_a == <<"/", "w", "/", "a">>
F_b == <<"/", "w", "/", "b">>
F_m == <<"/", "w", "/", "m">>
F_b_a == <<"/", "w", "/", "b", "_", "a">>
F_sib == <<"/", "w", "2", "/", "s">>
F_out == <<"/", "e", "/", "s">>
FileOrder == <<F_a, F_b, F_b_a, F_m, F_sib, F_out>>
Dirs == {<<"/", "w">>, <<"/", "w", "2">>, <<"/", "e">>, <<"/", "w", "/", "b", "a", "c", "k", "u", "p">>}

\* abspath_of, computed once for the path strings the actions build
NamedPaths ==
    Paths \cup DirPaths \cup {P_s, WD_e, <<"b", "a", "c", "k", "u", "p">>}
PathStrings ==
    NamedPaths \cup { join(d, p) : d \in {P_dot, WD_e}, p \in NamedPaths }
abspath_table == [p \in PathStrings |-> abspath_of(p)]

abspath(path) ==
    LET lookup(table) == IF path \in DOMAIN table THEN table[path] ELSE abspath_of(path)
    IN lookup(abspath_table)

\* the work root directory, canonical
WorkRoot == abspath(P_dot)

\* a canonical path lies in the work root directory: it is the root or below it
InsideRoot(f) == f = WorkRoot \/ startswith(f, WorkRoot \o <<"/">>)

\* file contents at the start: the fixture files staged into the sandbox
InitFs == (F_a :> <<"A">>) @@ (F_b :> <<"B">>) @@ (F_sib :> <<"S">>) @@ (F_out :> <<"T">>)

\* contents an action may carry
Contents == {<<"x">>}

\* ------------------------------------------------------------------ read-only set

\* fnmatch.fnmatch for a pattern that is literal or ends with one "*"
fnmatch(name, pat) ==
    IF pat # <<>> /\ pat[Len(pat)] = "*"
    THEN startswith(name, SubSeq(pat, 1, Len(pat) - 1))
    ELSE name = pat

\* the lines of scripts/read_only_files.txt
ignore_files == {P_dot_a}

\* os.path.relpath(path, work_dir) of a directory at or below the work root
relpath(dir) ==
    IF dir = WorkRoot THEN <<".">>
    ELSE SubSeq(dir, Len(WorkRoot) + 2, Len(dir))

\* initialize_task_env: the names join(relpath, filename) of the files under the
\* work root at the start that match a line of read_only_files.txt
read_only_files ==
    { n \in { join(relpath(dirname(f)), basename(f)) :
                  f \in { g \in DOMAIN InitFs : InsideRoot(g) } } :
        \E ignore \in ignore_files : fnmatch(n, ignore) }

\* the files the read-only set protects, by canonical path
ReadOnlyTargets == { abspath(n) : n \in read_only_files }

\* ------------------------------------------------------------------ sandbox

\* The sandbox collaborator: exec / read_file / write_file.  Every call may
\* raise instead of returning: flt = [at |-> k, kind |-> e] makes the k-th
\* sandbox call of a handler raise e (at = 0: none raises).
NoFault == [at |-> 0, kind |-> "none"]
FaultKinds == {"TimeoutException", "ConnectionAborted", "OSError", "RuntimeError"}
Faults == {NoFault} \cup { [at |-> k, kind |-> e] : k \in 1..2, e \in FaultKinds }

\* str(e) of a raised fault
faultmsg(kind) ==
    IF kind = "ConnectionAborted" THEN <<"Connection aborted.">>
    ELSE IF kind = "TimeoutException" THEN <<"Timed out!">>
    ELSE IF kind = "RuntimeError" THEN <<"sandbox failure">>
    ELSE <<"[Errno 5] Input/output error">>

\* where the sandbox finds a path: relative paths resolve against its working
\* directory, the work root (no symbolic links on this machine)
sbpath(path) == abspath(path)

Call(op, path) == [op |-> op, path |-> path, file |-> sbpath(path)]

\* stdout of ls: the names in a directory, the path itself for a file, "" when missing
RECURSIVE lsnames(_, _, _)
lsnames(f, dir, k) ==
    IF k > Len(FileOrder) THEN <<>>
    ELSE (IF FileOrder[k] \in DOMAIN f /\ dirname(FileOrder[k]) = dir
          THEN basename(FileOrder[k]) \o <<"\n">> ELSE <<>>)
         \o lsnames(f, dir, k + 1)

ls(f, path) ==
    LET at(c) == IF c \in DOMAIN f THEN path \o <<"\n">>
                 ELSE IF c \in Dirs THEN lsnames(f, c, 1)
                 ELSE <<>>
    IN at(sbpath(path))

\* sandbox().exec(["ls", ...]) / exec(["cat", path]): [exc, stdout]
sb_exec_ls(f, path, k, flt) ==
    IF flt.at = k THEN [exc |-> flt.kind, stdout |-> <<>>]
    ELSE [exc |-> "none", stdout |-> ls(f, path)]

sb_exec_cat(f, path, k, flt) ==
    LET at(c) == IF c \in DOMAIN f THEN f[c] ELSE <<>>
    IN IF flt.at = k THEN [exc |-> flt.kind, stdout |-> <<>>]
       ELSE [exc |-> "none", stdout |-> at(sbpath(path))]

\* sandbox().exec(["cp", src, dst]): [exc, returncode, fs]; a failed cp returns
\* a non-zero code, it does not raise
sb_exec_cp(f, src, dst, k, flt) ==
    LET at(s, d) ==
            IF s \in DOMAIN f /\ d \notin Dirs
            THEN [exc |-> "none", returncode |-> 0,
                  fs |-> [g \in DOMAIN f \cup {d} |-> IF g = d THEN f[s] ELSE f[g]]]
            ELSE [exc |-> "none", returncode |-> 1, fs |-> f]
    IN IF flt.at = k THEN [exc |-> flt.kind, returncode |-> 0, fs |-> f]
       ELSE at(sbpath(src), sbpath(dst))

\* sandbox().read_file(path): [exc, val]; a missing file raises
sb_read_file(f, path, k, flt) ==
    LET at(c) == IF c \in DOMAIN f THEN [exc |-> "none", val |-> f[c]]
                 ELSE [exc |-> "OSError", val |-> <<>>]
    IN IF flt.at = k THEN [exc |-> flt.kind, val |-> <<>>]
       ELSE at(sbpath(path))

\* a write_file that adds the content to what the file holds
sb_write_file_keeping(f, path, content, k, flt) ==
    LET at(c) == IF c \in Dirs THEN [exc |-> "OSError", fs |-> f]
                 ELSE [exc |-> "none",
                       fs |-> [g \in DOMAIN f \cup {c} |->
                                 IF g # c THEN f[g]
                                 ELSE IF c \in DOMAIN f THEN f[c] \o content ELSE content]]
    IN IF flt.at = k THEN [exc |-> flt.kind, fs |-> f]
       ELSE at(sbpath(path))

\* sandbox().write_file(path, content): [exc, fs]; writing over a directory raises
sb_write_file(f, path, content, k, flt) ==
    LET at(c) == IF c \in Dirs THEN [exc |-> "OSError", fs |-> f]
                 ELSE [exc |-> "none",
                       fs |-> [g \in DOMAIN f \cup {c} |-> IF g = c THEN content ELSE f[g]]]
    IN IF flt.at = k THEN [exc |-> flt.kind, fs |-> f]
       ELSE at(sbpath(path))

\* what a script prints and returns: [returncode, stdout, stderr]
ScriptResults ==
    { [returncode |-> rc, stdout |-> so, stderr |-> se] :
        rc \in {0, 1}, so \in {<<>>, <<"out">>}, se \in {<<>>, <<"err">>} }

\* ------------------------------------------------------------------ state

VARIABLES
    fs,          \* the sandbox's files: canonical path -> content
    backup,      \* the backup files on the host: canonical path -> content
    backup_seq,  \* the sequence number of the last backup pushed
    _trace,      \* Environment._trace: [steps, low_level_steps]
    now,         \* time.time(), in ticks; _start_time is 0
    ncalls,      \* execute() calls made so far
    final_asked, \* an execute() call with "Final Answer" has returned
    returned,    \* execute() calls that returned an observation so far
    snap,        \* the Trace object a caller got from the trace property, if any
    edits,       \* per script file, the pre-edit contents of its edits not yet undone
    last,        \* the most recent execute() call: what it did and returned
    lifecycle    \* the run around the environment: its driver, registry, alarm and children

vars == <<fs, backup, backup_seq, _trace, now, ncalls, final_asked, returned, snap, edits, last, lifecycle>>

\* ------------------------------------------------------------------ schema

\* schema.Action / schema.Step
Action(name, args) == [name |-> name, args |-> args]
Step(action, observation, timestamp) ==
    [action |-> action, observation |-> observation, timestamp |-> timestamp]

\* action.args that is a dict, and one that is not (agent.py passes a plain string)
Dict(kv) == [isdict |-> TRUE, kv |-> kv]
NotDict(text) == [isdict |-> FALSE, kv |-> [text |-> text]]

\* the outcome of calling a handler: the value returned (exc = "none") or the
\* exception raised with its message, the files and backups it leaves, the
\* sandbox calls it made in order, and the Steps it appended to the
\* low_level_steps of the Trace object it was handed.
\* msgstr: the message is a str (FALSE: it is an exception object)
Ok(val, f, bk, calls) ==
    [exc |-> "none", val |-> val, msgstr |-> TRUE, fs |-> f, backup |-> bk,
     calls |-> calls, low |-> <<>>]
Raise(exc, msg, f, bk, calls) ==
    [exc |-> exc, val |-> msg, msgstr |-> TRUE, fs |-> f, backup |-> bk,
     calls |-> calls, low |-> <<>>]

\* the exception a faulted sandbox call raises, as the handler sees it
Propagate(kind, f, bk, calls) == Raise(kind, faultmsg(kind), f, bk, calls)

\* ------------------------------------------------------------------ decorators

\* the work_dir parameter of a handler: the default "." unless the call's
\* keyword arguments carry one (the environment passes none of its own)
work_dir_of(kv) == IF "work_dir" \in DOMAIN kv THEN kv.work_dir ELSE P_dot

\* normalize_args_kwargs: sig.bind raises TypeError when a parameter is missing
binds(params, kv) == \A i \in 1..Len(params) : params[i] \in DOMAIN kv

\* the declared arguments a low-level step records
input_args(usage, kv) == [k \in { usage[i] : i \in 1..Len(usage) } |-> kv[k]]

\* append_to_low_level_steps, on the Trace object the handler was handed
append_to_low_level_steps(r, name, args, observation) ==
    [r EXCEPT !.low = Append(@, Step(Action(name, args), observation, now))]

\* record_low_level_step.wrapper
record_low_level_step(name, usage, kv, r) ==
    IF r.exc = "none"
    THEN append_to_low_level_steps(r, name, input_args(usage, kv), r.val)
    ELSE IF r.exc = "OSError"
    THEN [append_to_low_level_steps(r, name, input_args(usage, kv), r.val)
            EXCEPT !.exc = "EnvException", !.msgstr = FALSE]
    ELSE r

\* a membership test that finds no name read-only
is_read_only_never(fname, ro) == FALSE

\* the membership test of check_files_read_only
is_read_only(fname, ro) == fname \in ro

\* check_files_read_only(arg_names).wrapper
check_files_read_only(arg_names, kv, r) ==
    LET bad == { i \in 1..Len(arg_names) : is_read_only(kv[arg_names[i]], read_only_files) }
        first == CHOOSE i \in bad : \A j \in bad : i <= j
    IN IF bad # {}
       THEN Raise("EnvException",
                  <<"cannot write file ">> \o kv[arg_names[first]]
                      \o <<" because it is a read-only file.">>,
                  fs, backup, <<>>)
       ELSE r

\* the prefix test of check_files_in_work_dir
in_work_dir(work_dir, file_name) ==
    startswith(abspath(join(work_dir, file_name)), abspath(work_dir))

\* check_files_in_work_dir(arg_names).wrapper
check_files_in_work_dir(arg_names, kv, r) ==
    LET bad == { i \in 1..Len(arg_names) :
                    ~in_work_dir(work_dir_of(kv), kv[arg_names[i]]) }
        first == CHOOSE i \in bad : \A j \in bad : i <= j
    IN IF bad # {}
       THEN Raise("EnvException",
                  <<"cannot access file ">> \o kv[arg_names[first]]
                      \o <<" because it is not in the work directory.">>,
                  fs, backup, <<>>)
       ELSE r

TypeError == Raise("TypeError", <<"missing a required argument">>, fs, backup, <<>>)


\* ------------------------------------------------------------------ handlers

BACKUP == <<"b", "a", "c", "k", "u", "p">>

list_files_body(kv, flt) ==
    LET path == join(work_dir_of(kv), kv.dir_path)
        r == sb_exec_ls(fs, path, 1, flt)
        calls == <<Call("exec_ls", path)>>
    IN IF r.exc = "none" THEN Ok(r.stdout, fs, backup, calls)
       ELSE Raise("EnvException",
                  <<"Cannot list file in the ">> \o kv.dir_path \o <<" directory">>,
                  fs, backup, calls)

list_files(kv, flt) ==
    IF ~binds(<<"dir_path">>, kv) THEN TypeError
    ELSE check_files_in_work_dir(<<"dir_path">>, kv,
            record_low_level_step("List Files", <<"dir_path">>, kv,
                list_files_body(kv, flt)))

read_file_body(kv, flt) ==
    LET path == join(work_dir_of(kv), kv.file_name)
        r == sb_exec_cat(fs, path, 1, flt)
        calls == <<Call("exec_cat", path)>>
    IN IF r.exc = "none" THEN Ok(r.stdout, fs, backup, calls)
       ELSE Raise("EnvException", <<"cannot read file ">> \o kv.file_name,
                  fs, backup, calls)

read_file(kv, flt) ==
    IF ~binds(<<"file_name">>, kv) THEN TypeError
    ELSE check_files_in_work_dir(<<"file_name">>, kv,
            record_low_level_step("Read File", <<"file_name">>, kv,
                read_file_body(kv, flt)))

write_file_body(kv, flt) ==
    LET path == join(work_dir_of(kv), kv.file_name)
        w == sb_write_file(fs, path, kv.content, 1, flt)
        calls == <<Call("write_file", path)>>
    IN IF w.exc = "none"
       THEN Ok(<<"File ">> \o kv.file_name \o <<" written successfully.">>,
               w.fs, backup, calls)
       ELSE Raise("EnvException", <<"cannot write file ">> \o kv.file_name,
                  fs, backup, calls)

write_file(kv, flt) ==
    IF ~binds(<<"file_name", "content">>, kv) THEN TypeError
    ELSE check_files_in_work_dir(<<"file_name">>, kv,
            check_files_read_only(<<"file_name">>, kv,
                record_low_level_step("Write File", <<"file_name", "content">>, kv,
                    write_file_body(kv, flt))))

append_file_body(kv, flt) ==
    LET path == join(work_dir_of(kv), kv.file_name)
        existing_content == sb_read_file(fs, path, 1, flt)
        w == sb_write_file(fs, path, existing_content.val \o kv.content, 2, flt)
        failed == Raise("EnvException", <<"cannot append file ">> \o kv.file_name,
                        fs, backup, <<>>)
    IN IF existing_content.exc # "none"
       THEN [failed EXCEPT !.calls = <<Call("read_file", path)>>]
       ELSE IF w.exc # "none"
       THEN [failed EXCEPT !.calls = <<Call("read_file", path), Call("write_file", path)>>]
       ELSE Ok(<<"File ">> \o kv.file_name \o <<" appended successfully.">>,
               w.fs, backup, <<Call("read_file", path), Call("write_file", path)>>)

\* an append_file without the read-only guard
append_file_unguarded(kv, flt) ==
    IF ~binds(<<"file_name", "content">>, kv) THEN TypeError
    ELSE check_files_in_work_dir(<<"file_name">>, kv,
            record_low_level_step("Append File", <<"file_name", "content">>, kv,
                append_file_body(kv, flt)))

append_file(kv, flt) ==
    IF ~binds(<<"file_name", "content">>, kv) THEN TypeError
    ELSE check_files_in_work_dir(<<"file_name">>, kv,
            check_files_read_only(<<"file_name">>, kv,
                record_low_level_step("Append File", <<"file_name", "content">>, kv,
                    append_file_body(kv, flt))))

copy_file_body(kv, flt) ==
    LET src == join(work_dir_of(kv), kv.source)
        dst == join(work_dir_of(kv), kv.destination)
        r == sb_exec_cp(fs, src, dst, 1, flt)
        calls == <<[op |-> "exec_cp", path |-> src, file |-> sbpath(src)],
                   [op |-> "exec_cp_to", path |-> dst, file |-> sbpath(dst)]>>
    IN IF r.exc = "none"
       THEN Ok(<<"File ">> \o kv.source \o <<" copied to ">> \o kv.destination,
               r.fs, backup, calls)
       ELSE Raise("EnvException",
                  <<"File ">> \o kv.source \o <<" copy to ">> \o kv.destination
                      \o <<" failed. Check whether the source and destinations are valid.">>,
                  fs, backup, calls)

copy_file(kv, flt) ==
    IF ~binds(<<"source", "destination">>, kv) THEN TypeError
    ELSE check_files_in_work_dir(<<"source", "destination">>, kv,
            check_files_read_only(<<"destination">>, kv,
                record_low_level_step("Copy File", <<"source", "destination">>, kv,
                    copy_file_body(kv, flt))))

\* glob.glob(os.path.join(work_dir, "backup", f"{script_name}_*")): the names,
\* spelled dirname/name, of the files of the pattern's directory that match
\* its last component (names that start with "." only for such a pattern)
glob_backups(bk, work_dir, script_name) ==
    LET pattern == join(join(work_dir, BACKUP), script_name \o <<"_", "*">>)
        d == dirname(pattern)
        b == basename(pattern)
    IN { join(d, basename(g)) :
           g \in { h \in DOMAIN bk :
                     /\ dirname(h) = abspath(d)
                     /\ fnmatch(basename(h), b)
                     /\ (Head(basename(h)) = "." => Head(b) = ".") } }

\* backup_files.sort(); backup_files[-1]
last_sorted(names) == CHOOSE n \in names : \A o \in names : o = n \/ strless(o, n)

\* os.remove
remove(bk, file) == [g \in DOMAIN bk \ {file} |-> bk[g]]

undo_edit_script_body(kv, flt) ==
    LET backup_files == glob_backups(backup, work_dir_of(kv), kv.script_name)
        backup_file == last_sorted(backup_files)
        contents == backup[abspath(backup_file)]
        path == join(work_dir_of(kv), kv.script_name)
        w == sb_write_file(fs, path, contents, 1, flt)
        removed == remove(backup, abspath(backup_file))
        new_content == sb_read_file(w.fs, path, 2, flt)
        msg == <<"Cannot undo the edit of file name ">> \o kv.script_name
                   \o <<". Check the file name again.">>
    IN IF backup_files = {}
       THEN Raise("EnvException", <<"There is no change to undo.">>, fs, backup, <<>>)
       ELSE IF w.exc # "none"
       THEN Raise("EnvException", msg, fs, backup, <<Call("write_file", path)>>)
       ELSE IF new_content.exc # "none"
       THEN Raise("EnvException", msg, w.fs, removed,
                  <<Call("write_file", path), Call("read_file", path)>>)
       ELSE Ok(<<"Content of ">> \o kv.script_name
                   \o <<" after undo the most recent edit:\n">> \o new_content.val,
               w.fs, removed, <<Call("write_file", path), Call("read_file", path)>>)

undo_edit_script(kv, flt) ==
    IF ~binds(<<"script_name">>, kv) THEN TypeError
    ELSE check_files_in_work_dir(<<"script_name">>, kv,
            record_low_level_step("Undo Edit Script", <<"script_name">>, kv,
                undo_edit_script_body(kv, flt)))

\* a test that takes no stdout of ls for empty
blank_never(stdout) == FALSE

\* str.strip() == "" of the stdout of ls
blank(stdout) == \A i \in 1..Len(stdout) : stdout[i] \in {"\n", " ", ""}

\* the selection of a handler that returns stdout whatever the exit code is
script_output_stdout(sr) == sr.stdout

\* result.stderr if result.returncode != 0 else (result.stdout or result.stderr)
script_output(sr) ==
    IF sr.returncode # 0 THEN sr.stderr
    ELSE IF sr.stdout # <<>> THEN sr.stdout ELSE sr.stderr

\* the script runs with cwd = work_dir and returns sr; its own file accesses
\* are the script's, not the environment's, and are not modelled
execute_script_body(kv, flt, sr) ==
    LET probe == join(work_dir_of(kv), kv.script_name)
        result == sb_exec_ls(fs, probe, 1, flt)
        run == IF flt.at = 2 THEN [exc |-> flt.kind] ELSE [exc |-> "none"]
        script == [op |-> "exec_python", path |-> kv.script_name,
                   file |-> sbpath(join(work_dir_of(kv), kv.script_name))]
        observation == script_output(sr)
    IN IF result.exc # "none"
       THEN Propagate(result.exc, fs, backup, <<Call("exec_ls", probe)>>)
       ELSE IF blank(result.stdout)
       THEN Raise("EnvException",
                  <<"The file ">> \o kv.script_name \o <<" does not exist.">>,
                  fs, backup, <<Call("exec_ls", probe)>>)
       ELSE IF run.exc # "none"
       THEN Raise("EnvException",
                  <<"Something went wrong in executing ">> \o kv.script_name \o <<": ">>
                      \o faultmsg(run.exc)
                      \o <<". Please check if it is ready to be executed.">>,
                  fs, backup, <<Call("exec_ls", probe), script>>)
       ELSE Ok(<<"The script has been executed. Here is the output:\n">> \o observation,
               fs, backup, <<Call("exec_ls", probe), script>>)

execute_script(kv, flt, sr) ==
    IF ~binds(<<"script_name">>, kv) THEN TypeError
    ELSE check_files_in_work_dir(<<"script_name">>, kv,
            record_low_level_step("Execute Script", <<"script_name">>, kv,
                execute_script_body(kv, flt, sr)))

python_repl(kv) ==
    IF ~binds(<<"command">>, kv) THEN TypeError
    ELSE record_low_level_step("Python REPL", <<"command">>, kv,
            Raise("EnvException", <<"Not implemented">>, fs, backup, <<>>))

\* the high-level edit action ("apply an AI-guided patch"): it reads the script,
\* asks the generation backend for the new content, writes it through the
\* guarded write_file, and on success pushes the pre-edit content as
\* backup/<script_name>_<sequence number>
stamp(n) == CASE n = 1 -> <<"1">> [] n = 2 -> <<"2">> [] n = 3 -> <<"3">> [] OTHER -> <<"4">>

with_work_dir(kv, d) == IF "work_dir" \in DOMAIN kv THEN d @@ [work_dir |-> kv.work_dir] ELSE d

edit_script(kv, llm, new_content) ==
    LET name == join(join(work_dir_of(kv), BACKUP),
                     kv.script_name \o <<"_">> \o stamp(backup_seq + 1))
        edited(rd, wr) ==
            IF rd.exc # "none" THEN rd
            ELSE IF llm # "ok"
            THEN [Raise(llm, <<"backend failure">>, fs, backup, rd.calls)
                    EXCEPT !.low = rd.low]
            ELSE IF wr.exc # "none"
            THEN [wr EXCEPT !.calls = rd.calls \o @, !.low = rd.low \o @]
            ELSE [Ok(<<"The edited file is saved to ">> \o kv.script_name,
                     wr.fs, (abspath(name) :> rd.val) @@ backup, rd.calls \o wr.calls)
                    EXCEPT !.low = rd.low \o wr.low]
    IN IF ~binds(<<"script_name", "edit_instruction">>, kv) THEN TypeError
       ELSE edited(read_file(with_work_dir(kv, [file_name |-> kv.script_name]), NoFault),
                   write_file(with_work_dir(kv, [file_name |-> kv.script_name,
                                                 content |-> new_content]), NoFault))

\* ------------------------------------------------------------------ registry

LOW_LEVEL_ACTION_INFOS ==
    << [name |-> "List Files", usage |-> <<"dir_path">>, function |-> "list_files"],
       [name |-> "Read File", usage |-> <<"file_name">>, function |-> "read_file"],
       [name |-> "Write File", usage |-> <<"file_name", "content">>, function |-> "write_file"],
       [name |-> "Append File", usage |-> <<"file_name", "content">>, function |-> "append_file"],
       [name |-> "Copy File", usage |-> <<"source", "destination">>, function |-> "copy_file"],
       [name |-> "Undo Edit Script", usage |-> <<"script_name">>, function |-> "undo_edit_script"],
       [name |-> "Execute Script", usage |-> <<"script_name">>, function |-> "execute_script"],
       [name |-> "Python REPL", usage |-> <<"command">>, function |-> "python_repl"],
       [name |-> "Final Answer", usage |-> <<"final_answer">>, function |-> "lambda"] >>

HIGH_LEVEL_ACTION_INFOS ==
    << [name |-> "Edit Script (AI)", usage |-> <<"script_name", "edit_instruction">>,
        function |-> "edit_script"] >>

\* the dict comprehension {t.name: t for t in infos}: of two entries with one
\* name the dict keeps the later, and nothing is raised
registry_of(infos) ==
    [n \in { infos[i].name : i \in 1..Len(infos) } |->
        infos[CHOOSE i \in 1..Len(infos) :
                 infos[i].name = n /\ \A j \in (i + 1)..Len(infos) : infos[j].name # n]]

\* Environment.__init__: {t.name: t for t in LOW_LEVEL_ACTION_INFOS + HIGH_LEVEL_ACTION_INFOS}
_action_infos == registry_of(LOW_LEVEL_ACTION_INFOS \o HIGH_LEVEL_ACTION_INFOS)

\* the keyword arguments execute() adds to the action's own
\* (log_file, trace and _static_kwargs_for_tools)
static_keys == {"log_file", "trace", "device", "python", "read_only_files", "research_problem"}

\* self._action_infos[action.name].function(**action.args, ...)
call_function(action, flt, sr, llm, new_content) ==
    LET kv == action.args.kv
        f == _action_infos[action.name].function
    IN IF DOMAIN kv \cap static_keys # {} THEN TypeError
       ELSE CASE f = "list_files" -> list_files(kv, flt)
              [] f = "read_file" -> read_file(kv, flt)
              [] f = "write_file" -> write_file(kv, flt)
              [] f = "append_file" -> append_file(kv, flt)
              [] f = "copy_file" -> copy_file(kv, flt)
              [] f = "undo_edit_script" -> undo_edit_script(kv, flt)
              [] f = "execute_script" -> execute_script(kv, flt, sr)
              [] f = "python_repl" -> python_repl(kv)
              [] f = "edit_script" -> edit_script(kv, llm, new_content)
              [] OTHER -> Ok(<<>>, fs, backup, <<>>)

\* ------------------------------------------------------------------ trace

\* Environment._initialize_trace
_initialize_trace == [steps |-> <<>>, low_level_steps |-> <<>>]

\* a trace property that returns self._trace itself
trace_property_self(t) ==
    [live |-> TRUE, steps |-> t.steps, low_level_steps |-> t.low_level_steps]

\* the Environment.trace property: copy.deepcopy(self._trace), a new object
\* (live: the object is self._trace itself)
trace_property(t) ==
    [live |-> FALSE, steps |-> t.steps, low_level_steps |-> t.low_level_steps]

trace == trace_property(_trace)

\* the object a caller holds after self._trace became t: it shows t if it is
\* self._trace itself, and is untouched if it is a copy
aliased(obj, t) ==
    IF obj.live THEN [obj EXCEPT !.steps = t.steps, !.low_level_steps = t.low_level_steps]
    ELSE obj

\* a write-back that takes the appended object's lists while its own steps
\* are empty and starts over once they are not
written_back_restarting(t, obj) ==
    IF t.steps = <<>>
    THEN [steps |-> obj.steps, low_level_steps |-> obj.low_level_steps]
    ELSE [steps |-> <<>>, low_level_steps |-> <<>>]

\* self._trace after obj, an object trace_property returned, was appended to:
\* the appends are the environment's own only if obj is self._trace
written_back(t, obj) ==
    IF obj.live THEN [steps |-> obj.steps, low_level_steps |-> obj.low_level_steps]
    ELSE t

\* ------------------------------------------------------------------ dispatcher

_start_time == 0

\* is_final without the test of the time elapsed
is_final_untimed ==
    LET curr_step == Len(trace.steps)
        any_final_answer ==
            \E i \in 1..Len(trace.steps) : trace.steps[i].action.name = "Final Answer"
    IN \/ curr_step >= max_steps
       \/ any_final_answer

\* an is_final that never reports the end
is_final_never == FALSE

\* Environment.is_final
is_final ==
    LET curr_step == Len(trace.steps)
        any_final_answer ==
            \E i \in 1..Len(trace.steps) : trace.steps[i].action.name = "Final Answer"
    IN \/ curr_step >= max_steps
       \/ any_final_answer
       \/ now - _start_time > max_time

OBS_END == <<"end">>
OBS_SHUTDOWN ==
    <<"The environment has shut down because the maximum number of steps or time has been reached. Please submit your final answer.">>

RECURSIVE commajoin(_)
commajoin(names) ==
    IF names = <<>> THEN <<>>
    ELSE IF Len(names) = 1 THEN <<names[1]>>
    ELSE <<names[1], ", ">> \o commajoin(Tail(names))

\* a list of names that stops after the first registered one
action_names_first == <<LOW_LEVEL_ACTION_INFOS[1].name>>

\* ", ".join(self._action_infos.keys()): the names in registration order
action_names ==
    LET infos == LOW_LEVEL_ACTION_INFOS \o HIGH_LEVEL_ACTION_INFOS
    IN commajoin([i \in 1..Len(infos) |-> infos[i].name])

invalid_action(name) ==
    <<"Invalid action: ", name,
      ". ActionInfo did not execute. Please use one of the following actions:\n">>
        \o action_names

\* a schema text that names no parameter
usage_lines_none(usage) == <<>>

RECURSIVE usage_lines(_)
usage_lines(usage) ==
    IF usage = <<>> THEN <<>>
    ELSE <<Head(usage), ": [...]">> \o (IF Len(usage) > 1 THEN <<",\n">> ELSE <<>>)
             \o usage_lines(Tail(usage))

invalid_action_error(name) ==
    <<"The action input for ", name,
      " needs to be a valid json with proper entries. You may have missed the comma between entries. Please use the correct format and try again:\n{">>
        \o usage_lines(_action_infos[name].usage) \o <<"}">>

\* "Connection aborted." in str(e)
contains(msg, piece) == \E i \in 1..Len(msg) : msg[i] = piece

NoCall == Ok(<<>>, fs, backup, <<>>)

Returns(observation, invoked, r) ==
    [observation |-> observation, raised |-> "none", invoked |-> invoked, r |-> r]
Raises(exc, r) ==
    [observation |-> <<>>, raised |-> exc, invoked |-> TRUE, r |-> r]

\* the try/except of Environment.execute around the handler call: r is what
\* the handler returned or raised
observe(action, r) ==
    CASE r.exc = "none" -> Returns(r.val, TRUE, r)
      [] r.exc = "TooLongPromptError" ->
            Returns(<<"EnvError: too long input for the tool">>, TRUE, r)
      \* "LLMError: " + e.message: LLMError defines no message attribute
      [] r.exc = "LLMError" -> Raises("AttributeError", r)
      \* "EnvError: " + e.message: a message that is no str cannot be added
      [] r.exc = "EnvException" ->
            IF r.msgstr THEN Returns(<<"EnvError: ">> \o r.val, TRUE, r)
            ELSE Raises("TypeError", r)
      [] r.exc = "TypeError" ->
            Returns(<<"EnvError: ">> \o invalid_action_error(action.name), TRUE, r)
      [] r.exc = "TimeoutException" -> Raises("TimeoutException", r)
      [] OTHER ->
            IF contains(r.val, "Connection aborted.") THEN Raises("Exception", r)
            ELSE Returns(<<"EnvError: Error executing ", action.name, ".">>, TRUE, r)

\* an execute() that looks the action name up before it tests is_final
dispatch_unknown_first(action, flt, sr, llm, new_content) ==
    IF action.name = "Final Answer" THEN Returns(OBS_END, FALSE, NoCall)
    ELSE IF action.name \notin DOMAIN _action_infos
    THEN Returns(invalid_action(action.name), FALSE, NoCall)
    ELSE IF is_final THEN Returns(OBS_SHUTDOWN, FALSE, NoCall)
    ELSE IF action.args.isdict
    THEN observe(action, call_function(action, flt, sr, llm, new_content))
    ELSE Returns(invalid_action_error(action.name), FALSE, NoCall)

\* os.path.join(self._log_dir, "tool_logs", f"step_{curr_step}_tool_log.log")
log_file(curr_step) == <<"tool_logs/step_", curr_step, "_tool_log.log">>

\* Environment.execute up to the observation: which branch runs, what the
\* handler did, and the observation returned or the exception that leaves execute()
dispatch(action, flt, sr, llm, new_content) ==
    IF action.name = "Final Answer" THEN Returns(OBS_END, FALSE, NoCall)
    ELSE IF is_final THEN Returns(OBS_SHUTDOWN, FALSE, NoCall)
    ELSE IF action.name \notin DOMAIN _action_infos
    THEN Returns(invalid_action(action.name), FALSE, NoCall)
    ELSE IF action.args.isdict
    THEN observe(action, call_function(action, flt, sr, llm, new_content))
    ELSE Returns(invalid_action_error(action.name), FALSE, NoCall)

\* the files whose content (or existence) differs between two file maps
changed_files(f, g) ==
    { x \in DOMAIN f \cup DOMAIN g :
        (x \in DOMAIN f) # (x \in DOMAIN g) \/ (x \in DOMAIN f /\ f[x] # g[x]) }

\* no script was run
NoScript == [returncode |-> 0, stdout |-> <<>>, stderr |-> <<>>]

NoAction == Action("", Dict([none |-> <<>>]))
NoLast ==
    [action |-> NoAction, observation |-> <<>>, raised |-> "none", invoked |-> FALSE,
     final |-> FALSE, curr_step |-> 0, step_time |-> 0, calls |-> <<>>, low |-> <<>>,
     exc |-> "none", fault |-> NoFault, script |-> NoScript,
     changed |-> {}, removed |-> {}]

\* no Trace object read yet
NoSnapshot ==
    [held |-> FALSE, read_at |-> 0, mutations |-> 0, live |-> FALSE,
     steps |-> <<>>, low_level_steps |-> <<>>]

\* a Step a caller makes up
ForeignStep == Step(Action("Foreign", Dict([none |-> <<>>])), <<"forged">>, 0)

\* Environment.execute from the observation on: d is the outcome of dispatch
record_step(action, flt, sr, d) ==
    LET curr_step == Len(trace.steps)
        \* the object given as trace=self.trace, after the handler's appends
        handed == [trace EXCEPT !.low_level_steps = @ \o d.r.low]
        t1 == written_back(_trace, handed)
        \* self.trace.steps.append(Step(action, observation, step_time))
        step_time == now
        appended == [trace_property(t1) EXCEPT
                        !.steps = Append(@, Step(action, d.observation, step_time))]
        t2 == IF d.raised = "none" THEN written_back(t1, appended) ELSE t1
    IN /\ \A g \in DOMAIN d.r.fs : Len(d.r.fs[g]) <= MaxContentLen
       /\ DOMAIN d.r.backup \ DOMAIN backup # {} => backup_seq < MaxBackups
       /\ fs' = d.r.fs
       /\ backup' = d.r.backup
       /\ backup_seq' = IF DOMAIN d.r.backup \ DOMAIN backup # {}
                        THEN backup_seq + 1 ELSE backup_seq
       /\ _trace' = t2
       /\ ncalls' = ncalls + 1
       /\ final_asked' = (final_asked \/ (action.name = "Final Answer" /\ d.raised = "none"))
       /\ returned' = IF d.raised = "none" THEN returned + 1 ELSE returned
       /\ snap' = aliased(snap, t2)
       /\ last' = [action |-> action, observation |-> d.observation,
                   raised |-> d.raised, invoked |-> d.invoked, final |-> is_final,
                   curr_step |-> curr_step, step_time |-> step_time,
                   calls |-> d.r.calls, low |-> d.r.low,
                   exc |-> d.r.exc, fault |-> flt,
                   script |-> IF \E i \in 1..Len(d.r.calls) : d.r.calls[i].op = "exec_python"
                              THEN sr ELSE NoScript,
                   changed |-> changed_files(fs, d.r.fs),
                   removed |-> DOMAIN backup \ DOMAIN d.r.backup]
       /\ UNCHANGED now

\* Environment.execute
execute(action, flt, sr, llm, new_content) ==
    record_step(action, flt, sr, dispatch(action, flt, sr, llm, new_content))

\* ------------------------------------------------------------------ inputs

SR0 == [returncode |-> 0, stdout |-> <<"out">>, stderr |-> <<>>]
X == <<"x">>

\* (source, destination) pairs for Copy File
CopyPairs ==
    ({P_a, P_m, P_out, P_sib} \X {P_dot_a, P_b}) \cup
    ({P_b} \X {P_dot_a, P_a, P_m, P_out, P_sib})

\* well-formed actions of the registry, one per path
FileActions ==
    { Action("List Files", Dict([dir_path |-> d])) : d \in DirPaths } \cup
    { Action("Read File", Dict([file_name |-> p])) : p \in Paths } \cup
    { Action("Write File", Dict([file_name |-> p, content |-> c])) :
        p \in Paths, c \in Contents } \cup
    { Action("Append File", Dict([file_name |-> p, content |-> c])) :
        p \in Paths, c \in Contents } \cup
    { Action("Copy File", Dict([source |-> sd[1], destination |-> sd[2]])) :
        sd \in CopyPairs } \cup
    { Action("Undo Edit Script", Dict([script_name |-> p])) : p \in Paths } \cup
    { Action("Execute Script", Dict([script_name |-> p])) : p \in Paths }

\* actions that carry a work_dir entry of their own
WorkDirActions ==
    { Action("Read File", Dict([file_name |-> P_s, work_dir |-> WD_e])),
      Action("Write File", Dict([file_name |-> P_s, content |-> X, work_dir |-> WD_e])),
      Action("Write File", Dict([file_name |-> P_dot_a, content |-> X, work_dir |-> WD_e])) }

\* the terminal action, an unknown name, malformed arguments
OtherActions ==
    { Action("Final Answer", Dict([final_answer |-> <<"done">>])),
      Action("Final Answer", NotDict(<<"Done!">>)),
      Action("Python REPL", Dict([command |-> <<"1">>])),
      Action("Bogus", Dict([file_name |-> P_b])),
      Action("Write File", Dict([file_name |-> P_b])),
      Action("Read File", NotDict(P_b)),
      Action("Read File", Dict([file_name |-> P_b, trace |-> <<"t">>])) }

EditActions ==
    { Action("Edit Script (AI)", Dict([script_name |-> p, edit_instruction |-> <<"i">>])) :
        p \in {P_a, P_b, P_dot_a} }

\* the actions during which a sandbox call is made to fail
FaultActions ==
    { Action("List Files", Dict([dir_path |-> P_dot])),
      Action("Read File", Dict([file_name |-> P_b])),
      Action("Write File", Dict([file_name |-> P_b, content |-> X])),
      Action("Append File", Dict([file_name |-> P_b, content |-> X])),
      Action("Copy File", Dict([source |-> P_a, destination |-> P_b])),
      Action("Undo Edit Script", Dict([script_name |-> P_b])),
      Action("Execute Script", Dict([script_name |-> P_b])) }

\* the handlers that make a second sandbox call
two_calls == {"Append File", "Undo Edit Script", "Execute Script"}

\* an action and the sandbox call of its handler that fails
FaultInputs ==
    { af \in FaultActions \X (Faults \ {NoFault}) :
        af[2].at = 1 \/ af[1].name \in two_calls }

\* an execute() call and what its collaborators do during it:
\* <<action, sandbox fault, script result, backend outcome>>
Inputs ==
    ((FileActions \cup WorkDirActions \cup OtherActions) \X {NoFault} \X {SR0} \X {"ok"})
    \cup { <<af[1], af[2], SR0, "ok">> : af \in FaultInputs }
    \cup ({ Action("Execute Script", Dict([script_name |-> P_b])) }
            \X {NoFault} \X ScriptResults \X {"ok"})
    \cup (EditActions \X {NoFault} \X {SR0} \X {"ok", "LLMError", "TooLongPromptError"})

\* ------------------------------------------------------------------ specification

\* no run is modelled around the environment: execute() is called directly
NoRun == [driver |-> "none", pc |-> "direct", high |-> <<>>, registry |-> <<>>,
          raised |-> "none", alarm |-> -1, children |-> {}, error_txt |-> "none",
          active_at_report |-> 0]

Init ==
    /\ fs = InitFs
    /\ backup = <<>>
    /\ backup_seq = 0
    /\ _trace = _initialize_trace
    /\ now = _start_time
    /\ ncalls = 0
    /\ final_asked = FALSE
    /\ returned = 0
    /\ snap = NoSnapshot
    /\ edits = <<>>
    /\ last = NoLast
    /\ lifecycle = NoRun

\* time passes between calls
Tick ==
    /\ now < MaxClock
    /\ now' = now + 1
    /\ UNCHANGED <<fs, backup, backup_seq, _trace, ncalls, final_asked, returned, snap, edits, last, lifecycle>>

\* a caller reads the trace property and keeps what it returns
ReadTrace ==
    /\ snap' = [held |-> TRUE, read_at |-> ncalls, mutations |-> 0] @@ trace
    /\ UNCHANGED <<fs, backup, backup_seq, _trace, now, ncalls, final_asked, returned, edits, last, lifecycle>>

\* the caller appends a Step of its own to the steps and the low_level_steps
\* of the object it holds
MutateSnapshot ==
    /\ snap.held
    /\ snap.mutations < MaxMutations
    /\ snap' = [snap EXCEPT !.mutations = @ + 1,
                            !.steps = Append(@, ForeignStep),
                            !.low_level_steps = Append(@, ForeignStep)]
    /\ _trace' = written_back(_trace, snap')
    /\ UNCHANGED <<fs, backup, backup_seq, now, ncalls, final_asked, returned, edits, last, lifecycle>>

Execute ==
    /\ ncalls < MaxCalls
    /\ \E i \in Inputs : \E c \in Contents : execute(i[1], i[2], i[3], i[4], c)
    /\ UNCHANGED <<edits, lifecycle>>

Next == Tick \/ Execute

Spec == Init /\ [][Next]_vars

\* the calls of a caller that also reads the trace property and appends to
\* what it was returned
SnapshotInputs ==
    { <<a, NoFault, SR0, "ok">> :
        a \in { Action("Read File", Dict([file_name |-> P_b])),
                Action("Write File", Dict([file_name |-> P_b, content |-> X])),
                Action("Execute Script", Dict([script_name |-> P_m])),
                Action("Final Answer", Dict([final_answer |-> <<"done">>])),
                Action("Bogus", Dict([file_name |-> P_b])) } }

ExecuteSnapshot ==
    /\ ncalls < MaxCalls
    /\ \E i \in SnapshotInputs : execute(i[1], i[2], i[3], i[4], X)
    /\ UNCHANGED <<edits, lifecycle>>

NextSnapshot == Tick \/ ExecuteSnapshot \/ ReadTrace \/ MutateSnapshot

SpecSnapshot == Init /\ [][NextSnapshot]_vars

\* a run of edits and undos over two scripts, "b" and "b_a"; "b_a" is written
\* before it is edited
Y == <<"y">>
UndoScripts == {P_b, P_b_a}
UndoActions ==
    { Action("Write File", Dict([file_name |-> P_b_a, content |-> X])) } \cup
    { Action("Edit Script (AI)", Dict([script_name |-> p, edit_instruction |-> <<"i">>])) :
        p \in UndoScripts } \cup
    { Action("Undo Edit Script", Dict([script_name |-> p])) : p \in UndoScripts }

\* the file an action names as its script
script_file(action) == abspath(join(P_dot, action.args.kv.script_name))

\* the pre-edit contents of the edits of a script file that are not undone yet,
\* oldest first
stack_of(e, f) == IF f \in DOMAIN e THEN e[f] ELSE <<>>

\* the stacks after an execute() call: a successful edit pushes the content the
\* script had before it, a successful undo pops
edits_after(e, action, f, outcome) ==
    LET file == script_file(action)
        stack == stack_of(e, file)
        with(st) == [g \in DOMAIN e \cup {file} |-> IF g = file THEN st ELSE e[g]]
    IN IF outcome.exc # "none" \/ outcome.raised # "none" THEN e
       ELSE IF action.name = "Edit Script (AI)"
       THEN with(Append(stack, IF file \in DOMAIN f THEN f[file] ELSE <<>>))
       ELSE IF action.name = "Undo Edit Script" /\ stack # <<>>
       THEN with(SubSeq(stack, 1, Len(stack) - 1))
       ELSE e

ExecuteUndo ==
    /\ ncalls < MaxUndoCalls
    /\ \E a \in UndoActions : \E c \in {X, Y} :
          \* only a script that exists is edited
          /\ a.name = "Edit Script (AI)" => script_file(a) \in DOMAIN fs
          /\ execute(a, NoFault, SR0, "ok", c)
          /\ edits' = IF "script_name" \in DOMAIN a.args.kv
                      THEN edits_after(edits, a, fs, last')
                      ELSE edits
    /\ UNCHANGED lifecycle

NextUndo == ExecuteUndo

SpecUndo == Init /\ [][NextUndo]_vars

\* ------------------------------------------------------------------ the run

MaxInfos == 2
MaxChildren == 2

\* who drives the environment: the research_agent solver of adapter.py, which
\* constructs the environment and awaits agent.run, or a caller that uses the
\* environment as a context manager, "with Environment(...) as env", as
\* runner.py does
Drivers == {"research_agent", "with_statement"}

\* entries the high-level list may hold
HighEntries ==
    { [name |-> n, usage |-> <<"script_name", "edit_instruction">>, function |-> f] :
        n \in {"Read File", "Edit Script (AI)"}, f \in {"edit_script", "edit_script_segment"} }

\* the high-level lists the registry is built from
HighLists == UNION { [1..k -> HighEntries] : k \in 0..MaxInfos }

\* a run before the environment is constructed
InitRun ==
    /\ fs = InitFs
    /\ backup = <<>>
    /\ backup_seq = 0
    /\ _trace = _initialize_trace
    /\ now = _start_time
    /\ ncalls = 0
    /\ final_asked = FALSE
    /\ returned = 0
    /\ snap = NoSnapshot
    /\ edits = <<>>
    /\ last = NoLast
    /\ lifecycle \in { [NoRun EXCEPT !.driver = d, !.pc = "start", !.high = h] :
                          d \in Drivers, h \in HighLists }

env_vars == <<fs, backup, backup_seq, _trace, now, ncalls, final_asked, returned, snap, edits, last>>

\* Environment.__init__: the registry is the dict comprehension over the two
\* lists; nothing in it raises
__init__ ==
    /\ lifecycle.pc = "start"
    /\ lifecycle' = [lifecycle EXCEPT
                        !.pc = "constructed",
                        !.registry = registry_of(LOW_LEVEL_ACTION_INFOS \o lifecycle.high)]
    /\ UNCHANGED env_vars

\* Environment.__enter__: installs the SIGALRM handler and arms the alarm
\* max_time from now; only a with statement calls it
__enter__ ==
    /\ lifecycle.driver = "with_statement"
    /\ lifecycle.pc = "constructed"
    /\ now + max_time <= MaxClock
    /\ lifecycle' = [lifecycle EXCEPT !.pc = "entered", !.alarm = now + max_time]
    /\ UNCHANGED env_vars

\* the agent starts: "await agent.run(env)" right after the construction in
\* the solver, "agent.run(env)" inside the with block
agent_run ==
    /\ \/ lifecycle.driver = "research_agent" /\ lifecycle.pc = "constructed"
       \/ lifecycle.driver = "with_statement" /\ lifecycle.pc = "entered"
    /\ lifecycle' = [lifecycle EXCEPT !.pc = "running"]
    /\ UNCHANGED env_vars

\* a child process is started during the run
spawn_child ==
    /\ lifecycle.pc = "running"
    /\ Cardinality(lifecycle.children) < MaxChildren
    /\ lifecycle' = [lifecycle EXCEPT
                        !.children = @ \cup {Cardinality(lifecycle.children) + 1}]
    /\ UNCHANGED env_vars

\* a handler never returns: execute_script awaits the sandbox with no timeout
handler_hangs ==
    /\ lifecycle.pc = "running"
    /\ lifecycle' = [lifecycle EXCEPT !.pc = "hung"]
    /\ UNCHANGED env_vars

\* agent.run returns: the solver returns at once, the with block is left
agent_returns ==
    /\ lifecycle.pc = "running"
    /\ lifecycle' = [lifecycle EXCEPT
                        !.pc = IF lifecycle.driver = "with_statement"
                               THEN "leaving" ELSE "returned"]
    /\ UNCHANGED env_vars

\* signal_handler: the alarm armed by __enter__ goes off and TimeoutException
\* is raised in whatever is running; __exit__ does not disarm it
signal_handler ==
    /\ lifecycle.alarm >= 0
    /\ now >= lifecycle.alarm
    /\ lifecycle.pc \in {"entered", "running", "hung", "returned"}
    /\ lifecycle' = [lifecycle EXCEPT
                        !.alarm = -1,
                        !.raised = "TimeoutException",
                        !.pc = IF lifecycle.pc = "returned" THEN "late_timeout"
                               ELSE "unwinding"]
    /\ UNCHANGED env_vars

\* Environment.__exit__: terminates and joins the active children, then
\* writes error.txt when an exception is unwinding; the exception goes on
__exit__ ==
    /\ lifecycle.driver = "with_statement"
    /\ lifecycle.pc \in {"leaving", "unwinding"}
    /\ lifecycle' = [lifecycle EXCEPT
                        !.children = {},
                        !.active_at_report = 0,
                        !.error_txt = lifecycle.raised,
                        !.pc = IF lifecycle.raised = "none" THEN "returned" ELSE "aborted"]
    /\ UNCHANGED env_vars

NextRun ==
    \/ Tick
    \/ __init__
    \/ __enter__
    \/ agent_run
    \/ spawn_child
    \/ handler_hangs
    \/ agent_returns
    \/ signal_handler
    \/ __exit__

SpecRun == InitRun /\ [][NextRun]_vars

\* time passes, a due alarm is delivered, and an unwinding or finished with
\* block runs __exit__
SpecRunFair ==
    /\ InitRun
    /\ [][NextRun]_vars
    /\ WF_vars(Tick)
    /\ WF_vars(signal_handler)
    /\ WF_vars(__exit__)

\* ------------------------------------------------------------------ properties

\* the keyword arguments of the most recent execute() call
last_kv == last.action.args.kv

\* the most recent call named one of its path arguments p
names_path(action_name, arg, p) ==
    /\ last.action.name = action_name
    /\ last.action.args.isdict
    /\ arg \in DOMAIN last_kv
    /\ last_kv[arg] = p

\* the sandbox calls of the most recent execute() that write a file
write_calls ==
    { i \in 1..Len(last.calls) : last.calls[i].op \in {"write_file", "exec_cp", "exec_cp_to"} }

\* the observation of a write refused for a read-only name
read_only_observation(p) ==
    <<"EnvError: ">> \o <<"cannot write file ">> \o p \o <<" because it is a read-only file.">>

\* the low-level file actions and the path arguments the containment guard checks
guarded_actions ==
    {"List Files", "Read File", "Write File", "Append File", "Copy File",
     "Undo Edit Script", "Execute Script"}
guarded_args == {"dir_path", "file_name", "source", "destination", "script_name"}

\* the paths the most recent call named, resolved against the work root
resolved_paths ==
    { abspath(join(WorkRoot, last_kv[k])) : k \in DOMAIN last_kv \cap guarded_args }

\* C1: when a low-level file action, run with the default work root, names a
\* path whose canonical resolution lies outside the work root directory, the
\* containment guard rejects it: no sandbox call is made.
C1_GuardRejectsOutside ==
    ( /\ last.action.name \in guarded_actions
      /\ last.action.args.isdict
      /\ "work_dir" \notin DOMAIN last_kv
      /\ \E f \in resolved_paths : ~InsideRoot(f) )
    => last.calls = <<>>

\* C2: the work root is the environment's: when the action's arguments carry
\* a work_dir entry of their own, the sandbox calls still stay inside the
\* environment's work root.
C2_WorkRootFixed ==
    "work_dir" \in DOMAIN last_kv =>
        \A i \in 1..Len(last.calls) : InsideRoot(last.calls[i].file)

\* the most recent call is a write, an append or a copy whose target argument
\* is the read-only name p, with all its declared arguments present
writes_to(p) ==
    \/ names_path("Write File", "file_name", p) /\ "content" \in DOMAIN last_kv
    \/ names_path("Append File", "file_name", p) /\ "content" \in DOMAIN last_kv
    \/ names_path("Copy File", "destination", p) /\ "source" \in DOMAIN last_kv

\* C3 as stated: Write File / Append File with file_name = p and Copy File with
\* destination = p, p in the read-only set, each return the read-only
\* observation, make no sandbox write or copy call and change no file.
C3_ReadOnlyObservationAlways ==
    \A p \in read_only_files :
        writes_to(p) =>
            /\ last.observation = read_only_observation(p)
            /\ write_calls = {}
            /\ last.changed = {}

\* C3, amended: such a call never makes a sandbox write or copy call and never
\* changes a file; it returns the read-only observation when the environment
\* is not final and, for Copy File, the source passes the containment guard.
C3_ReadOnlyRejected ==
    \A p \in read_only_files :
        writes_to(p) =>
            /\ write_calls = {}
            /\ last.changed = {}
            /\ ( /\ ~last.final
                 /\ last.action.name = "Copy File" =>
                        in_work_dir(work_dir_of(last_kv), last_kv.source) )
               => last.observation = read_only_observation(p)

\* a Copy File onto a read-only name was refused with the read-only observation
C3_Witness ==
    \E p \in read_only_files :
        /\ names_path("Copy File", "destination", p)
        /\ last.observation = read_only_observation(p)
        /\ ncalls > 0

\* C4: the content of a file of the read-only set is never changed, whatever
\* spelling of its path an action uses.
C4_ReadOnlyContentKept ==
    \A f \in ReadOnlyTargets : f \in DOMAIN fs /\ fs[f] = InitFs[f]

\* C5: Undo Edit Script with a read-only script_name makes no sandbox call,
\* changes no file and removes no backup, a backup of the script existing or not.
C5_UndoReadOnlyRefused ==
    \A p \in read_only_files :
        names_path("Undo Edit Script", "script_name", p) =>
            /\ last.calls = <<>>
            /\ last.changed = {}
            /\ last.removed = {}

\* the most recent call found the budget, as the claim counts it, used up:
\* the steps recorded had reached max_steps or the time elapsed max_time
exhausted_at_call ==
    \/ last.curr_step >= max_steps
    \/ last.step_time - _start_time >= max_time

\* the most recent call found the budget, as is_final counts it, used up
over_budget_at_call ==
    \/ last.curr_step >= max_steps
    \/ last.step_time - _start_time > max_time

\* the most recent call was answered by the shutdown branch alone
shut_down ==
    /\ last.observation = OBS_SHUTDOWN
    /\ ~last.invoked
    /\ last.calls = <<>>
    /\ last.low = <<>>

C7_FinalAfterMaxSteps ==
    returned >= max_steps => is_final

\* C8: after an execute() of "Final Answer" has returned, is_final() is true
\* from then on.
C8_FinalAfterFinalAnswer ==
    final_asked => is_final

\* C9: an execute() that returned has made the environment's steps, as the
\* next read of the trace property shows them, one longer, and the new last
\* Step holds the call's action and observation.
C9_StepRecorded ==
    (ncalls > 0 /\ last.raised = "none") =>
        /\ Len(trace.steps) = last.curr_step + 1
        /\ trace.steps[Len(trace.steps)].action = last.action
        /\ trace.steps[Len(trace.steps)].observation = last.observation

low_recorded ==
    /\ Len(trace.low_level_steps) >= Len(last.low)
    /\ SubSeq(trace.low_level_steps,
              Len(trace.low_level_steps) - Len(last.low) + 1,
              Len(trace.low_level_steps)) = last.low

\* C11: after execute() ran a registered low-level action whose handler
\* returned normally, a read of the trace property shows the low-level step
\* the handler appended: its name, declared arguments and observation.
C11_LowLevelStepInLiveTrace ==
    ( /\ ncalls > 0
      /\ last.invoked
      /\ last.exc = "none"
      /\ last.action.name \in guarded_actions )
    => /\ Len(last.low) = 1
       /\ last.low[1].action.name = last.action.name
       /\ last.low[1].observation = last.observation
       /\ low_recorded

\* C12: when the body of a low-level handler raised after it had called the
\* sandbox, the attempt is in the low-level steps handed to the trace: an
\* entry was appended before the error was re-raised or converted.
C12_FailedAttemptRecorded ==
    ( /\ ncalls > 0
      /\ last.invoked
      /\ last.action.name \in guarded_actions
      /\ last.exc # "none"
      /\ last.calls # <<>> )
    => last.low # <<>>

\* C13: what the trace property returns is a snapshot: a caller's appends to
\* it leave the environment's own trace as it was, and an execute() call
\* leaves a snapshot taken before it as it was.
C13_TraceIsSnapshot ==
    [][ /\ (ncalls' = ncalls /\ snap.held /\ snap'.mutations # snap.mutations)
            => _trace' = _trace
        /\ (ncalls' # ncalls /\ snap.held) => snap' = snap ]_vars

\* a caller appended to a snapshot it took before an execute() call that ran
\* a handler, and holds more steps than the environment
C13_Witness ==
    /\ snap.held
    /\ snap.mutations > 0
    /\ snap.read_at < ncalls
    /\ last.invoked
    /\ Len(snap.steps) > Len(_trace.steps)

\* the sandbox call of the last handler invoked raised the planned fault
sandbox_raised(kind) ==
    /\ ncalls > 0
    /\ last.invoked
    /\ last.fault.kind = kind
    /\ last.fault.at > 0
    /\ Len(last.calls) >= last.fault.at

\* C14: a TimeoutException raised while a handler runs, a low-level handler's
\* sandbox call included, leaves execute() as that exception and is never
\* turned into an observation.
C14_TimeoutPropagates ==
    sandbox_raised("TimeoutException") => last.raised = "TimeoutException"

\* C15: a sandbox failure whose message contains 'Connection aborted.' makes
\* execute() raise, whichever low-level action was running.
C15_TransportFailureFatal ==
    sandbox_raised("ConnectionAborted") => last.raised # "none"

\* the conditions a handler raises that are neither a timeout, a transport
\* failure nor a backend error
absorbed_conditions == {"TooLongPromptError", "EnvException", "TypeError", "RuntimeError"}

\* C16: when a handler raises prompt-too-long, an environment error whatever
\* its message value, an argument type error or an unclassified exception,
\* execute() returns an observation and raises nothing.
C16_OtherConditionsAbsorbed ==
    (ncalls > 0 /\ last.invoked /\ last.exc \in absorbed_conditions)
        => last.raised = "none"

\* C17: when the handler raises LLMError, execute() raises nothing and
\* returns an observation that carries the backend's message.
C17_LLMErrorReported ==
    (ncalls > 0 /\ last.invoked /\ last.exc = "LLMError")
        => /\ last.raised = "none"
           /\ contains(last.observation, "backend failure")

\* the action of the most recent call is none the registry knows
unknown_name == last.action.name \notin DOMAIN _action_infos \cup {"Final Answer"}

\* the arguments of the most recent call are no mapping
malformed_args == ~last.action.args.isdict

\* C18 as stated: with the budget used up, execute() returns the shutdown
\* observation for "Final Answer", for an unknown name and for malformed
\* arguments alike.
C18_BudgetCheckedFirst ==
    ( /\ ncalls > 0
      /\ over_budget_at_call
      /\ (last.action.name = "Final Answer" \/ unknown_name \/ malformed_args) )
    => last.observation = OBS_SHUTDOWN

\* C18, amended: the budget is tested after the "Final Answer" name and
\* before the registry lookup and the argument check: with the budget used
\* up "Final Answer" is answered "end", and an unknown name or malformed
\* arguments are answered with the shutdown observation.
C18_BudgetCheckedAfterFinalAnswer ==
    (ncalls > 0 /\ over_budget_at_call) =>
        /\ last.action.name = "Final Answer" => last.observation = OBS_END
        /\ (last.action.name # "Final Answer" /\ (unknown_name \/ malformed_args))
              => last.observation = OBS_SHUTDOWN

\* a registered name with malformed arguments arrived after the budget was
\* used up and was shut out
C18_Witness ==
    /\ ncalls > 0
    /\ over_budget_at_call
    /\ last.action.name \in DOMAIN _action_infos
    /\ malformed_args
    /\ last.observation = OBS_SHUTDOWN

\* C19 as stated: an unknown action name is answered with the Invalid-Action
\* observation even when the budget is used up.
C19_UnknownReportedWhenExhausted ==
    (ncalls > 0 /\ unknown_name /\ over_budget_at_call)
        => last.observation = invalid_action(last.action.name)

\* C19, amended: an unknown action name is answered with the Invalid-Action
\* observation while the budget lasts, and with the shutdown observation
\* once it is used up.
C19_UnknownReportedWhileRunning ==
    (ncalls > 0 /\ unknown_name) =>
        last.observation = IF over_budget_at_call THEN OBS_SHUTDOWN
                           ELSE invalid_action(last.action.name)

\* an unknown name was reported within the budget, no handler invoked
C19_Witness ==
    /\ ncalls > 0
    /\ unknown_name
    /\ ~over_budget_at_call
    /\ ~last.invoked
    /\ last.observation = invalid_action(last.action.name)

\* C20: while Running, execute() of "Final Answer" invokes no handler,
\* validates no argument, returns the terminal marker whatever the
\* arguments are, and the transition is recorded as a step.
C20_FinalAnswerShortCircuits ==
    (ncalls > 0 /\ last.action.name = "Final Answer" /\ ~last.final) =>
        /\ last.observation = OBS_END
        /\ ~last.invoked
        /\ last.raised = "none"
        /\ Len(trace.steps) = last.curr_step + 1
        /\ trace.steps[Len(trace.steps)].action = last.action

\* the step from the unprimed to the primed state is an execute() call
is_call == ncalls' = ncalls + 1

\* the environment's own trace gained at most the one step of the call
at_most_one_step ==
    /\ _trace'.low_level_steps = _trace.low_level_steps
    /\ \/ _trace'.steps = _trace.steps
       \/ _trace'.steps =
            Append(_trace.steps, Step(last'.action, last'.observation, last'.step_time))

\* C21: while Running, execute() of a name the registry does not hold returns
\* the Invalid-Action observation, which lists every registered name; no
\* handler is invoked, no sandbox call is made, no low-level step is
\* appended, and nothing changes but, at most, the one step of the call.
C21_UnknownNameNoEffect ==
    [][ ( /\ is_call
          /\ ~last'.final
          /\ last'.action.name \notin DOMAIN _action_infos )
        => /\ last'.raised = "none"
           /\ last'.observation[1] = "Invalid action: "
           /\ last'.observation[2] = last'.action.name
           /\ \A n \in DOMAIN _action_infos : contains(last'.observation, n)
           /\ ~last'.invoked
           /\ last'.calls = <<>>
           /\ last'.low = <<>>
           /\ fs' = fs
           /\ backup' = backup
           /\ backup_seq' = backup_seq
           /\ at_most_one_step ]_vars

\* an unknown name was sent while Running, after a call that had changed a file
C21_Witness ==
    /\ ncalls = 2
    /\ ~last.final
    /\ last.action.name = "Bogus"
    /\ fs # InitFs
    /\ contains(last.observation, "Edit Script (AI)")

\* the declared parameters of a registered action
declared(name) ==
    { _action_infos[name].usage[i] : i \in 1..Len(_action_infos[name].usage) }

\* the arguments of the most recent call are no mapping, or a mapping that
\* lacks a declared parameter of the action
ill_formed_args ==
    \/ ~last.action.args.isdict
    \/ declared(last.action.name) \ DOMAIN last_kv # {}

\* the most recent call was answered with the schema message of its action,
\* every declared parameter named, and reached no sandbox call
schema_answer ==
    /\ last.raised = "none"
    /\ last.observation \in { invalid_action_error(last.action.name),
                              <<"EnvError: ">> \o invalid_action_error(last.action.name) }
    /\ \A p \in declared(last.action.name) : contains(last.observation, p)
    /\ last.calls = <<>>

\* C22 as stated: while Running, every registered action with ill-formed
\* arguments is answered with the schema message that names each declared
\* parameter, and no sandbox call is made.
C22_IllFormedArgsSchema ==
    ( /\ ncalls > 0
      /\ ~last.final
      /\ last.action.name \in DOMAIN _action_infos
      /\ ill_formed_args )
    => schema_answer

\* C22, amended: the same for every registered action but "Final Answer",
\* which is answered "end" whatever its arguments are.
C22_IllFormedArgsSchemaButFinalAnswer ==
    ( /\ ncalls > 0
      /\ ~last.final
      /\ last.action.name \in DOMAIN _action_infos
      /\ ill_formed_args )
    => IF last.action.name = "Final Answer"
       THEN last.observation = OBS_END /\ last.calls = <<>>
       ELSE schema_answer

\* a Write File without its content was answered with the schema message
C22_Witness ==
    /\ ncalls > 0
    /\ ~last.final
    /\ last.action.name = "Write File"
    /\ last.action.args.isdict
    /\ "content" \notin DOMAIN last_kv
    /\ schema_answer
    /\ last.observation[1] = "EnvError: "

\* the step is an Undo Edit Script call
is_undo == is_call /\ last'.action.name = "Undo Edit Script"

\* the content the script of the call had before its most recent edit that was
\* not undone yet
pre_edit ==
    LET stack == stack_of(edits, script_file(last'.action))
    IN stack[Len(stack)]

\* C23: undo is LIFO per script: an Undo Edit Script of a script with edits
\* not yet undone puts back the content the script had before the most recent
\* of them and returns that content; with every edit undone, it fails with
\* Nothing-To-Undo and leaves the files as they are.
C23_UndoLifoPerScript ==
    [][ is_undo =>
          IF stack_of(edits, script_file(last'.action)) # <<>>
          THEN /\ last'.raised = "none"
               /\ fs'[script_file(last'.action)] = pre_edit
               /\ last'.observation =
                    <<"Content of ">> \o last'.action.args.kv.script_name
                        \o <<" after undo the most recent edit:\n">> \o pre_edit
          ELSE /\ last'.observation = <<"EnvError: ", "There is no change to undo.">>
               /\ fs' = fs ]_vars

\* C24: an Undo Edit Script of a script that has no backup entry (none of its
\* edits is left to undo) is answered with the Nothing-To-Undo environment
\* error; execute() raises nothing, nothing is written to the sandbox and no
\* backup is removed.
C24_NothingToUndo ==
    [][ (is_undo /\ stack_of(edits, script_file(last'.action)) = <<>>)
        => /\ last'.raised = "none"
           /\ last'.observation = <<"EnvError: ", "There is no change to undo.">>
           /\ \A i \in 1..Len(last'.calls) : last'.calls[i].op # "write_file"
           /\ fs' = fs
           /\ backup' = backup ]_vars

\* the step is an Execute Script call that reaches its handler: made while
\* Running with script_name as the one argument, a name the containment
\* guard lets through, and no sandbox call failing
runs_execute_script ==
    /\ is_call
    /\ ~last'.final
    /\ last'.action.name = "Execute Script"
    /\ last'.action.args.isdict
    /\ DOMAIN last'.action.args.kv = {"script_name"}
    /\ in_work_dir(P_dot, last'.action.args.kv.script_name)
    /\ last'.fault = NoFault

\* C25: Execute Script of a name that does not exist in the sandbox is
\* answered with "The file <name> does not exist."; the existence probe is
\* the only sandbox call made, the script is never started.
C25_MissingScriptNotRun ==
    [][ ( /\ runs_execute_script
          /\ script_file(last'.action) \notin DOMAIN fs \cup Dirs )
        => /\ last'.raised = "none"
           /\ last'.observation =
                <<"EnvError: ", "The file ">> \o last'.action.args.kv.script_name
                    \o <<" does not exist.">>
           /\ Len(last'.calls) = 1
           /\ last'.calls[1].op = "exec_ls"
           /\ fs' = fs ]_vars

\* Execute Script was called on "m", which is no file, and only probed for it
C25_Witness ==
    /\ ncalls > 0
    /\ ~last.final
    /\ names_path("Execute Script", "script_name", P_m)
    /\ F_m \notin DOMAIN fs
    /\ contains(last.observation, " does not exist.")
    /\ Len(last.calls) = 1

BANNER == <<"The script has been executed. Here is the output:\n">>

\* C26: for a script that exists, the Execute Script observation is the
\* banner followed by stderr when the exit code is not zero, by stdout when
\* the exit code is zero and stdout is not empty, and by stderr when the exit
\* code is zero and stdout is empty.
C26_ScriptOutputSelection ==
    [][ ( /\ runs_execute_script
          /\ script_file(last'.action) \in DOMAIN fs )
        => /\ last'.raised = "none"
           /\ last'.calls[Len(last'.calls)].op = "exec_python"
           /\ last'.observation =
                BANNER \o (IF last'.script.returncode # 0 THEN last'.script.stderr
                           ELSE IF last'.script.stdout # <<>> THEN last'.script.stdout
                           ELSE last'.script.stderr) ]_vars

\* a script ended with exit code zero and an empty stdout, and its stderr was
\* returned
C26_Witness ==
    /\ ncalls > 0
    /\ names_path("Execute Script", "script_name", P_b)
    /\ last.script.returncode = 0
    /\ last.script.stdout = <<>>
    /\ last.script.stderr = <<"err">>
    /\ last.observation = BANNER \o <<"err">>

\* the file a call names with file_name
named_file(l) == abspath(join(P_dot, l.action.args.kv.file_name))

\* the call l reached the handler of the action name with exactly the
\* arguments args, while Running and with no sandbox call failing
plain_call(l, name, args) ==
    /\ ~l.final
    /\ l.action.name = name
    /\ l.action.args.isdict
    /\ DOMAIN l.action.args.kv = args
    /\ l.fault = NoFault

\* the call l is a Write File of a writable file name inside the work root
writes_writable(l) ==
    /\ plain_call(l, "Write File", {"file_name", "content"})
    /\ InsideRoot(named_file(l))
    /\ named_file(l) \notin Dirs
    /\ named_file(l) \notin ReadOnlyTargets
    /\ l.action.args.kv.file_name \notin read_only_files

\* C27: a Write File of a writable in-root name f with content c returns
\* "File f written successfully." and leaves f holding c alone, and the Read
\* File of f that follows returns exactly c.
C27_WriteThenRead ==
    [][ is_call =>
          /\ writes_writable(last') =>
                /\ last'.observation =
                     <<"File ">> \o last'.action.args.kv.file_name
                         \o <<" written successfully.">>
                /\ fs'[named_file(last')] = last'.action.args.kv.content
          /\ ( /\ ncalls > 0
               /\ writes_writable(last)
               /\ plain_call(last', "Read File", {"file_name"})
               /\ last'.action.args.kv.file_name = last.action.args.kv.file_name )
             => last'.observation = last.action.args.kv.content ]_vars

\* "b", which held "B", was written with "x" and then read back as "x"
\* (no edit was made: there is no backup)
C27_Witness ==
    /\ ncalls = 2
    /\ ~last.final
    /\ names_path("Read File", "file_name", P_b)
    /\ backup = <<>>
    /\ InitFs[F_b] # X
    /\ fs[F_b] = X
    /\ last.observation = X

\* the most recent call was answered with an environment error
env_error == last.observation # <<>> /\ last.observation[1] = "EnvError: "

\* C28: a Read File of a file that does not exist in the sandbox is answered
\* with an environment error ("EnvError: cannot read file ..."), never with
\* an empty or partial content.
C28_ReadMissingIsError ==
    ( /\ ncalls > 0
      /\ plain_call(last, "Read File", {"file_name"})
      /\ in_work_dir(P_dot, last_kv.file_name)
      /\ named_file(last) \notin DOMAIN fs \cup Dirs )
    => /\ env_error
       /\ contains(last.observation, "cannot read file ")

\* the directory a call names with dir_path
named_dir(l) == abspath(join(P_dot, l.action.args.kv.dir_path))

\* C29: a List Files of a directory that does not exist in the sandbox is
\* answered with an environment error ("cannot list ..."), never with an
\* empty listing.
C29_ListMissingIsError ==
    ( /\ ncalls > 0
      /\ plain_call(last, "List Files", {"dir_path"})
      /\ in_work_dir(P_dot, last_kv.dir_path)
      /\ named_dir(last) \notin DOMAIN fs \cup Dirs )
    => /\ env_error
       /\ contains(last.observation, "Cannot list file in the ")

\* a handler outcome that is a guard's refusal: an environment error raised
\* before any sandbox call
refused(r) == r.exc = "EnvException" /\ r.calls = <<>>

\* the call l was refused by a guard with the message a Write File of the
\* same arguments gets, or was refused by none and neither is that Write File
guarded_as_write(l, w) ==
    IF refused(w)
    THEN l.calls = <<>> /\ l.observation = <<"EnvError: ">> \o w.val
    ELSE l.calls # <<>>

\* C30: an Append File of an existing writable file that holds x leaves it
\* holding x followed by the content given; and every Append File is refused
\* by the containment and read-only guards exactly when, and with the
\* message with which, a Write File of the same arguments is refused.
C30_AppendConcatenatesGuardedAsWrite ==
    [][ (is_call /\ plain_call(last', "Append File", {"file_name", "content"}))
        => /\ guarded_as_write(last', write_file(last'.action.args.kv, NoFault))
           /\ ( /\ named_file(last') \in DOMAIN fs
                /\ InsideRoot(named_file(last'))
                /\ named_file(last') \notin ReadOnlyTargets
                /\ last'.action.args.kv.file_name \notin read_only_files )
              => /\ last'.observation =
                      <<"File ">> \o last'.action.args.kv.file_name
                          \o <<" appended successfully.">>
                 /\ fs'[named_file(last')] =
                      fs[named_file(last')] \o last'.action.args.kv.content ]_vars

\* "x" was appended to "b", which held "B"
C30_Witness ==
    /\ ncalls = 1
    /\ names_path("Append File", "file_name", P_b)
    /\ last.fault = NoFault
    /\ fs[F_b] = InitFs[F_b] \o X
    /\ contains(last.observation, " appended successfully.")

\* the files a Copy File call names
copy_source(l) == abspath(join(P_dot, l.action.args.kv.source))
copy_destination(l) == abspath(join(P_dot, l.action.args.kv.destination))

\* the most recent call was refused by a guard: an environment error with no
\* sandbox call made
guard_refused == env_error /\ last.calls = <<>>

\* C31: Copy File checks its destination for containment and read-only and
\* its source for containment alone: a copy from a read-only source to a
\* writable destination inside the work root is made, a copy to a read-only
\* destination is refused, and a copy whose source or destination lies
\* outside the work root is refused.
C31_CopyGuards ==
    (ncalls > 0 /\ plain_call(last, "Copy File", {"source", "destination"})) =>
        /\ ( /\ copy_source(last) \in ReadOnlyTargets
             /\ InsideRoot(copy_destination(last))
             /\ copy_destination(last) \notin ReadOnlyTargets \cup Dirs )
           => last.observation =
                <<"File ">> \o last_kv.source \o <<" copied to ">> \o last_kv.destination
        /\ copy_destination(last) \in ReadOnlyTargets => guard_refused
        /\ (~InsideRoot(copy_source(last)) \/ ~InsideRoot(copy_destination(last)))
              => guard_refused

\* the backup files that were pushed for the script file f itself: the files
\* backup/<name>_<sequence number> of its directory
own_backups(bk, f) ==
    { h \in DOMAIN bk :
        \E n \in 1..(MaxBackups + 1) :
            h = join(join(dirname(f), BACKUP), basename(f) \o <<"_">> \o stamp(n)) }

\* C34: a successful Undo Edit Script of a script s removes exactly one
\* backup, one that was pushed for s itself, never the backup of another
\* script whose name begins with s followed by "_"; the content of every
\* other file and every other backup stay as they were.
C34_UndoTouchesOwnBackupOnly ==
    [][ (is_undo /\ last'.exc = "none" /\ last'.raised = "none")
        => /\ \E h \in own_backups(backup, script_file(last'.action)) :
                 /\ DOMAIN backup' = DOMAIN backup \ {h}
                 /\ \A g \in DOMAIN backup' : backup'[g] = backup[g]
           /\ \A g \in (DOMAIN fs \cup DOMAIN fs') \ {script_file(last'.action)} :
                 g \in DOMAIN fs /\ g \in DOMAIN fs' /\ fs'[g] = fs[g] ]_vars

\* the observation of a copy that was made
copied_observation ==
    <<"File ">> \o last_kv.source \o <<" copied to ">> \o last_kv.destination

\* C35: Copy File returns "File <source> copied to <destination>" only when
\* the copy was made, the destination holding the source's content
\* afterwards; when the source does not exist the observation is the
\* copy-failed error.
C35_CopySuccessOnlyIfCopied ==
    (ncalls > 0 /\ plain_call(last, "Copy File", {"source", "destination"})) =>
        /\ last.observation = copied_observation
              => /\ copy_source(last) \in DOMAIN fs
                 /\ copy_destination(last) \in DOMAIN fs
                 /\ fs[copy_destination(last)] = fs[copy_source(last)]
        /\ (last.calls # <<>> /\ copy_source(last) \notin DOMAIN fs)
              => /\ env_error
                 /\ contains(last.observation, " failed. Check whether the source and destinations are valid.")

\* C36: the log file paths handed to the handlers of two execute() calls of
\* one run differ: the path of each call is step_<n>_tool_log.log with n the
\* number of steps recorded before the call, and that number grows with
\* every call that returns.
C36_LogFilePerStep ==
    [][ (is_call /\ ncalls > 0 /\ last.invoked /\ last'.invoked)
        => /\ last'.curr_step = Len(_trace.steps)
           /\ log_file(last'.curr_step) # log_file(last.curr_step) ]_vars

\* the call was refused by the containment guard
containment_rejected ==
    env_error /\ contains(last.observation, " because it is not in the work directory.")

\* the call was refused by the read-only guard
read_only_rejected ==
    env_error /\ contains(last.observation, " because it is a read-only file.")

\* the call is a Write File or an Append File whose file_name fails the
\* containment test of the guard
write_escapes ==
    /\ last.action.name \in {"Write File", "Append File"}
    /\ last.action.args.isdict
    /\ DOMAIN last.action.args.kv = {"file_name", "content"}
    /\ ~in_work_dir(P_dot, last.action.args.kv.file_name)

\* the call went to a handler of low_level_actions.py
low_level_call ==
    /\ ncalls > 0
    /\ last.invoked
    /\ ~last.final
    /\ \E i \in 1..Len(LOW_LEVEL_ACTION_INFOS) : LOW_LEVEL_ACTION_INFOS[i].name = last.action.name

\* C37: a call of a low-level handler refused by the containment guard or by
\* the read-only guard made no sandbox call and appended no low-level step; a
\* file name that fails the containment test gets the containment error,
\* whatever the read-only guard would say; and the refused attempt is
\* recorded as the top-level step of the call.
C37_GuardsRejectBeforeRecording ==
    low_level_call =>
        /\ write_escapes => containment_rejected
        /\ (containment_rejected \/ read_only_rejected)
              => /\ last.calls = <<>>
                 /\ last.low = <<>>
                 /\ Len(trace.steps) = last.curr_step + 1
                 /\ trace.steps[Len(trace.steps)].action = last.action

\* two entries of the list have one name
duplicated(infos) ==
    \E i, j \in 1..Len(infos) : i < j /\ infos[i].name = infos[j].name

\* C32: an environment is never constructed from a list in which two entries
\* have the same name: the construction fails and no registry is built.
C32_DuplicateNameIsFatal ==
    duplicated(LOW_LEVEL_ACTION_INFOS \o lifecycle.high)
        => lifecycle.pc \in {"start", "failed"} /\ lifecycle.registry = <<>>

\* the run is aborted with the timeout: the exception went through __exit__,
\* which wrote it to error.txt with no child process left
aborted_on_timeout ==
    /\ lifecycle.pc = "aborted"
    /\ lifecycle.error_txt = "TimeoutException"
    /\ lifecycle.children = {}
    /\ lifecycle.active_at_report = 0

\* C33: in a run driven by the research_agent solver, a handler that hangs
\* leads to the run being aborted with the timeout, every child process
\* terminated and joined before the error is reported.
C33_HardDeadline ==
    [] ( (lifecycle.driver = "research_agent" /\ lifecycle.pc = "hung")
            => <> aborted_on_timeout )

====
